---- MODULE Spec2Model ----
(***************************************************************************)
(* holo-router gateway (src/gateway/src/main.rs): a TLS-passthrough proxy. *)
(* main binds a listener and spawns one task per accepted connection; the  *)
(* task runs process(): peek the 5-byte record header, peek the whole      *)
(* ClientHello, extract the SNI hostname, admit it by suffix, resolve it,  *)
(* connect, and splice the two sockets until both directions end.          *)
(*                                                                         *)
(* Bytes are integers 0..255, texts are sequences of ASCII codes. The      *)
(* timestamp of a report line (Utc::now) is not modelled.                  *)
(***************************************************************************)
EXTENDS Integers, Sequences, FiniteSets, TLC

----------------------------------------------------------------------------
(* Program constants *)

TLS_RECORD_HEADER_LENGTH == 5
TLS_HANDSHAKE_MAX_LENGTH == 2048

\* rustls ContentType / HandshakeType / ExtensionType / ServerNameType codes
\* that main.rs matches on.
ContentType_Alert == 21
ContentType_Handshake == 22
HandshakeType_HelloRequest == 0
HandshakeType_ClientHello == 1
HandshakeType_HelloRetryRequest == 6
ExtensionType_ServerName == 0
ServerNameType_HostName == 0
\* destination port of format!("{}:443", host_str)
OutboundPort == 443

----------------------------------------------------------------------------
(* Bounds of the model *)

\* connections the listener yields during one run
MaxConns == 2
\* size of the first TCP segment when a client's bytes arrive in two pieces
\* (below the header length)
SegCut == 3
\* bytes one partial write of the relay accepts
PartialWrite == 40
\* bytes one read of a relay direction takes at most (its buffer)
CopyChunk == 80

Conns == 1..MaxConns

----------------------------------------------------------------------------
(* Bytes and texts *)

Min(a, b) == IF a < b THEN a ELSE b

Take(s, n) == SubSeq(s, 1, Min(n, Len(s)))
Drop(s, n) == SubSeq(s, Min(n, Len(s)) + 1, Len(s))

IsPrefix(p, s) == Len(p) <= Len(s) /\ SubSeq(s, 1, Len(p)) = p

\* s ends with the text suf (str::ends_with)
EndsWith(s, suf) ==
    /\ Len(suf) <= Len(s)
    /\ SubSeq(s, Len(s) - Len(suf) + 1, Len(s)) = suf

\* t occurs in s as a contiguous run
Contains(s, t) ==
    \E i \in 0..(Len(s) - Len(t)) : SubSeq(s, i + 1, i + Len(t)) = t

\* big-endian integers, as rustls' Codec reads them
U16At(b, p) == b[p] * 256 + b[p + 1]
U24At(b, p) == b[p] * 65536 + b[p + 1] * 256 + b[p + 2]
PutU16(n) == <<(n \div 256) % 256, n % 256>>
PutU24(n) == <<(n \div 65536) % 256, (n \div 256) % 256, n % 256>>

\* "{}" of an unsigned integer: its decimal digits
RECURSIVE Dec(_)
Dec(n) == IF n < 10 THEN <<48 + n>> ELSE Dec(n \div 10) \o <<48 + (n % 10)>>

\* the allowed suffix, "holohost.net"
AllowedSuffix == <<104, 111, 108, 111, 104, 111, 115, 116, 46, 110, 101, 116>>

\* u8::to_ascii_lowercase
LowerByte(b) == IF b >= 65 /\ b <= 90 THEN b + 32 ELSE b
ToAsciiLowercase(s) == [i \in 1..Len(s) |-> LowerByte(s[i])]

\* characters webpki accepts in a DNS name: letters, digits, '-', '_', '.'
IsDnsChar(b) ==
    \/ b >= 97 /\ b <= 122
    \/ b >= 65 /\ b <= 90
    \/ b >= 48 /\ b <= 57
    \/ b \in {45, 95, 46}

\* webpki::DNSNameRef::try_from_ascii succeeds: non-empty, only DNS
\* characters, no empty label before the last dot. (The rules on hyphens and
\* all-numeric last labels are not modelled; the inputs below do not use them.)
IsValidDnsName(s) ==
    /\ Len(s) >= 1
    /\ \A i \in 1..Len(s) : IsDnsChar(s[i])
    /\ s[1] # 46
    /\ \A i \in 1..(Len(s) - 1) : ~(s[i] = 46 /\ s[i + 1] = 46)

----------------------------------------------------------------------------
(* TLS wire decoding (rustls), as process() uses it *)

\* record header: ContentType::read, ProtocolVersion::read, u16::read on the
\* 5 peeked bytes; the three unwraps cannot fail on a 5-byte buffer
HeaderContentType(buf) == buf[1]
HeaderVersion(buf) == <<buf[2], buf[3]>>
HeaderSize(buf) == U16At(buf, 4)

\* A decoding result that failed (None).
None == [ok |-> FALSE, typ |-> 0, hasSni |-> FALSE, names |-> <<>>]

\* Vec<ServerName> from the bytes b starting at p (read_vec_u16's loop):
\* an entry is a name type, then for host_name a u16-length name that must be
\* a valid DNS name (kept lowercased, as webpki's DNSName), and for any other
\* type the rest of the list as an opaque payload.
RECURSIVE ReadServerNames(_, _)
ReadServerNames(b, p) ==
    IF p > Len(b) THEN [ok |-> TRUE, names |-> <<>>]
    ELSE IF b[p] = ServerNameType_HostName
    THEN IF p + 2 > Len(b) THEN [ok |-> FALSE, names |-> <<>>]
         ELSE LET n == U16At(b, p + 1)
                  name == SubSeq(b, p + 3, p + 2 + n)
              IN  IF p + 2 + n > Len(b) \/ ~IsValidDnsName(name)
                  THEN [ok |-> FALSE, names |-> <<>>]
                  ELSE LET rest == ReadServerNames(b, p + 3 + n)
                       IN  [ok |-> rest.ok,
                            names |-> <<[hostname |-> TRUE,
                                         name |-> ToAsciiLowercase(name)]>>
                                      \o rest.names]
    ELSE [ok |-> TRUE,
          names |-> <<[hostname |-> FALSE, name |-> SubSeq(b, p + 1, Len(b))]>>]

\* ServerNameRequest::read on the body of a server_name extension: a u16
\* length, then that many bytes of entries; bytes left over fail the extension
ReadServerNameRequest(b) ==
    IF Len(b) < 2 THEN [ok |-> FALSE, names |-> <<>>]
    ELSE LET n == U16At(b, 1)
         IN  IF 2 + n # Len(b) THEN [ok |-> FALSE, names |-> <<>>]
             ELSE ReadServerNames(SubSeq(b, 3, 2 + n), 1)

\* Vec<ClientExtension> from b starting at p: type, u16 length, body. Only
\* server_name is decoded; an extension of any other type is kept opaque
\* (exact for the unassigned types the inputs use).
RECURSIVE ReadExtensions(_, _)
ReadExtensions(b, p) ==
    IF p > Len(b) THEN [ok |-> TRUE, exts |-> <<>>]
    ELSE IF p + 3 > Len(b) THEN [ok |-> FALSE, exts |-> <<>>]
    ELSE LET typ == U16At(b, p)
             n == U16At(b, p + 2)
             body == SubSeq(b, p + 4, p + 3 + n)
             sni == IF typ = ExtensionType_ServerName
                    THEN ReadServerNameRequest(body)
                    ELSE [ok |-> TRUE, names |-> <<>>]
         IN  IF p + 3 + n > Len(b) \/ ~sni.ok
             THEN [ok |-> FALSE, exts |-> <<>>]
             ELSE LET rest == ReadExtensions(b, p + 4 + n)
                  IN  [ok |-> rest.ok,
                       exts |-> <<[typ |-> typ, names |-> sni.names]>>
                                \o rest.exts]

\* ClientHelloPayload::read on b: version (2), random (32), session id
\* (u8 length <= 32), cipher suites (u16 length, even), compression methods
\* (u8 length), then, if bytes are left, the extensions (u16 length).
\* Yields the extensions and the position after what was read.
ReadClientHello(b) ==
    LET pSid == 35
        sidLen == b[pSid]
        pCs == pSid + 1 + sidLen
        csLen == U16At(b, pCs)
        pCm == pCs + 2 + csLen
        cmLen == b[pCm]
        pExt == pCm + 1 + cmLen
        extLen == U16At(b, pExt)
    IN  IF Len(b) < pSid \/ sidLen > 32 \/ Len(b) < pCs + 1 THEN
            [ok |-> FALSE, exts |-> <<>>, next |-> 0]
        ELSE IF Len(b) < pCm \/ csLen % 2 # 0 \/ Len(b) < pCm + cmLen THEN
            [ok |-> FALSE, exts |-> <<>>, next |-> 0]
        ELSE IF pExt > Len(b) THEN
            [ok |-> TRUE, exts |-> <<>>, next |-> pExt]
        ELSE IF Len(b) < pExt + 1 \/ Len(b) < pExt + 1 + extLen THEN
            [ok |-> FALSE, exts |-> <<>>, next |-> 0]
        ELSE LET r == ReadExtensions(SubSeq(b, pExt + 2, pExt + 1 + extLen), 1)
             IN  [ok |-> r.ok, exts |-> r.exts, next |-> pExt + 2 + extLen]

\* ClientHelloPayload::get_sni_extension: the first server_name extension
SniOf(exts) ==
    LET idx == {i \in 1..Len(exts) : exts[i].typ = ExtensionType_ServerName}
    IN  IF idx = {} THEN [hasSni |-> FALSE, names |-> <<>>]
        ELSE LET i == CHOOSE i \in idx : \A j \in idx : i <= j
             IN  [hasSni |-> TRUE, names |-> exts[i].names]

\* HandshakeMessagePayload::read_version on the record body: handshake type,
\* u24 length, then that many bytes decoded by type; None if bytes are short,
\* the payload does not decode, or payload bytes are left over.
\* HelloRetryRequest is never legal on the wire. Types other than ClientHello
\* are kept opaque (exact for HelloRequest and unassigned types).
ReadVersion(body) ==
    IF Len(body) < 4 THEN None
    ELSE LET typ == body[1]
             n == U24At(body, 2)
             sub == SubSeq(body, 5, 4 + n)
         IN  IF Len(body) < 4 + n THEN None
             ELSE IF typ = HandshakeType_HelloRetryRequest THEN None
             ELSE IF typ # HandshakeType_ClientHello
             THEN [ok |-> TRUE, typ |-> typ, hasSni |-> FALSE, names |-> <<>>]
             ELSE LET ch == ReadClientHello(sub)
                  IN  IF ~ch.ok \/ ch.next <= Len(sub) THEN None
                      ELSE [ok |-> TRUE, typ |-> typ,
                            hasSni |-> SniOf(ch.exts).hasSni,
                            names |-> SniOf(ch.exts).names]

----------------------------------------------------------------------------
(* The environment's inputs: what clients send, what DNS and upstreams answer *)

HostApp == <<97, 112, 112, 46>> \o AllowedSuffix
HostB == <<98, 46>> \o AllowedSuffix
HostEvil == <<101, 118, 105, 108, 46, 101, 120, 97, 109, 112, 108, 101, 46,
              99, 111, 109>>

\* "evilholohost.net", "app.HoloHost.net", "holohost.net.", "host.net"
HostEvilHolo == <<101, 118, 105, 108>> \o AllowedSuffix
HostUpper == <<97, 112, 112, 46, 72, 111, 108, 111, 72, 111, 115, 116, 46,
               110, 101, 116>>
HostDotted == AllowedSuffix \o <<46>>
HostShort == <<104, 111, 115, 116, 46, 110, 101, 116>>

\* hostname texts the admission check may be handed
HostTexts == {HostApp, HostB, HostEvil, HostEvilHolo, HostUpper, AllowedSuffix,
              HostDotted, HostShort}

Zeros(n) == [i \in 1..n |-> 0]

\* encoders of the TLS structures the inputs are built from
Record(ct, size, body) == <<ct, 3, 1>> \o PutU16(size) \o body
Handshake(typ, payload) == <<typ>> \o PutU24(Len(payload)) \o payload
WithExts(e) == PutU16(Len(e)) \o e
HelloPayload(extPart) ==
    <<3, 3>> \o Zeros(32) \o <<0>> \o <<0, 2, 19, 1>> \o <<1, 0>> \o extPart
Ext(typ, body) == PutU16(typ) \o PutU16(Len(body)) \o body
SniBody(entries) == PutU16(Len(entries)) \o entries
HostEntry(name) == <<ServerNameType_HostName>> \o PutU16(Len(name)) \o name
OtherEntry == <<9, 1, 2>>
\* a hostname entry cut short: 5 bytes of name declared, 1 sent
ShortEntry == <<ServerNameType_HostName, 0, 5, 97>>
HelloRecord(extPart) ==
    LET hs == Handshake(HandshakeType_ClientHello, HelloPayload(extPart))
    IN  Record(ContentType_Handshake, Len(hs), hs)
HelloWith(entries) == HelloRecord(WithExts(Ext(ExtensionType_ServerName,
                                              SniBody(entries))))
HelloFor(host) == HelloWith(HostEntry(host))
\* what may follow the first entry of a server name list
LaterEntries == {<<>>, HostEntry(HostEvil), OtherEntry, ShortEntry}
\* an application-data record a client sends after its hello
AppTail == <<23, 3, 3, 0, 2, 170, 187>>

\* well-formed hellos of admitted hosts
AdmittedStreams == {HelloFor(HostApp) \o AppTail, HelloFor(HostB)}

\* everything else a peer may send first
OtherStreams ==
    { <<>>,
      HelloFor(HostEvil),
      Record(ContentType_Alert, 2, <<2, 40>>),
      Record(ContentType_Alert, 65535, <<2, 40>>),
      Record(ContentType_Handshake, TLS_HANDSHAKE_MAX_LENGTH, <<1, 0, 0, 0>>),
      Record(ContentType_Handshake, TLS_HANDSHAKE_MAX_LENGTH + 1, <<1, 0, 0, 0>>),
      Record(ContentType_Handshake, 65535, <<>>),
      Record(ContentType_Handshake, TLS_HANDSHAKE_MAX_LENGTH,
             Zeros(TLS_HANDSHAKE_MAX_LENGTH)),
      Record(ContentType_Handshake, TLS_HANDSHAKE_MAX_LENGTH + 1,
             Zeros(TLS_HANDSHAKE_MAX_LENGTH + 1)),
      Record(ContentType_Handshake, 0, <<>>),
      Record(ContentType_Handshake, 3, <<1, 0, 0>>),
      Record(ContentType_Handshake, 4, Handshake(HandshakeType_HelloRequest, <<>>)),
      HelloRecord(<<>>),
      HelloRecord(WithExts(Ext(30583, <<1>>))),
      HelloRecord(WithExts(Ext(ExtensionType_ServerName, SniBody(OtherEntry)))),
      HelloRecord(WithExts(Ext(ExtensionType_ServerName, SniBody(<<>>)))),
      HelloWith(HostEntry(HostApp) \o HostEntry(HostEvil)),
      HelloWith(HostEntry(HostApp) \o OtherEntry),
      HelloWith(HostEntry(HostApp) \o ShortEntry),
      Record(ContentType_Handshake, 3, <<HandshakeType_HelloRequest, 0, 0>>)
    }

ClientStreams == AdmittedStreams \cup OtherStreams

\* a few of them, one for each way a connection can end
FewStreams ==
    { HelloFor(HostB),
      HelloFor(HostEvil),
      Record(ContentType_Handshake, 0, <<>>) }

\* what an upstream writes back
UpstreamStreams == {<<>>, <<22, 3, 3, 0, 1, 2>>}

\* remote peer addresses of inbound connections
Peers == {"198.51.100.7", "198.51.100.8"}

\* the two sockets of a task: inbound (the client), outbound (the upstream)
Sides == {"in", "out"}

\* the DNS the resolver sees: the IP addresses of a name, in answer order
DnsTable(host) ==
    IF host = HostApp THEN <<"203.0.113.1", "203.0.113.2">>
    ELSE IF host = HostB THEN <<"203.0.113.9">>
    ELSE <<"192.0.2.66">>

\* the upstream hosts there are
Ips == {"203.0.113.1", "203.0.113.2", "203.0.113.9", "192.0.2.66"}

\* an answer only the upstream at i writes: its address is the first byte
Greeting(i) ==
    <<CHOOSE k \in 1..4 :
        i = <<"203.0.113.1", "203.0.113.2", "203.0.113.9", "192.0.2.66">>[k],
      3, 3>>

\* An environment: how many connections the listener yields, what their
\* clients send, what the upstream at each address answers, whether the
\* first segment of a client may be cut short and a write be partial, which
\* remote ends may reset their connection, and the peer addresses.
EnvOne == [conns |-> 1, streams |-> ClientStreams,
           ups |-> [i \in Ips |-> UpstreamStreams],
           cuts |-> TRUE, resets |-> Sides, peers |-> Peers]
EnvMany == [conns |-> MaxConns, streams |-> FewStreams,
            ups |-> [i \in Ips |-> {<<>>}],
            cuts |-> FALSE, resets |-> {"in"}, peers |-> {"198.51.100.7"}]
\* two connections, a few inputs
EnvStall == [EnvMany EXCEPT !.conns = 2]
\* a pair of connections, each for an admitted name, and upstreams that can
\* be told apart by what they answer
EnvPair == [conns |-> 2, streams |-> {HelloFor(HostApp), HelloFor(HostB)},
            ups |-> [i \in Ips |-> {Greeting(i)}],
            cuts |-> FALSE, resets |-> {"in"}, peers |-> {"198.51.100.7"}]

\* what one call of to_socket_addrs on "host:port" can yield: an error, or
\* the addresses of the name with the port (possibly none)
ToSocketAddrs(host, port) ==
    { [ok |-> FALSE, addrs |-> <<>>],
      [ok |-> TRUE, addrs |-> <<>>],
      [ok |-> TRUE,
       addrs |-> [i \in 1..Len(DnsTable(host)) |->
                     [ip |-> DnsTable(host)[i], port |-> port]]] }

NoAddr == [ip |-> "", port |-> 0]

\* I/O error texts the operating system reports
IoReset == [fmt |-> "Connection reset by peer", args |-> <<>>]
IoRefused == [fmt |-> "Connection refused", args |-> <<>>]

----------------------------------------------------------------------------
(* Results of process() and its error texts *)

NoMsg == [fmt |-> "", args |-> <<>>]
Ok == [kind |-> "ok", msg |-> NoMsg]
Err(m) == [kind |-> "err", msg |-> m]
\* an unwrap() on None or an index out of range: the task unwinds
Panic == [kind |-> "panic", msg |-> NoMsg]
\* not returned yet
Running == [kind |-> "running", msg |-> NoMsg]

MsgPeekMismatch(n, size) ==
    [fmt |-> "Peek size mismatch: {} != {}", args |-> <<Dec(n), Dec(size)>>]
MsgNotHandshake == [fmt |-> "TLS message is not a handshake", args |-> <<>>]
MsgTooLarge(size) ==
    [fmt |-> "TLS handshake size is {}, expected {} max",
     args |-> <<Dec(size), Dec(TLS_HANDSHAKE_MAX_LENGTH)>>]
MsgNotClientHello == [fmt |-> "TLS handshake is not Client Hello", args |-> <<>>]
MsgMissingSni == [fmt |-> "Missing SNI", args |-> <<>>]
MsgUnknownSni == [fmt |-> "Unknown SNI payload type", args |-> <<>>]
MsgRejected(h) == [fmt |-> "Rejected {}", args |-> <<h>>]
MsgResolve(h) == [fmt |-> "Failed to resolve {}", args |-> <<h>>]

----------------------------------------------------------------------------
(* State *)

\* the two copies of splice: client_to_server reads "in" and writes "out"
Dirs == {"c2s", "s2c"}
Src(d) == IF d = "c2s" THEN "in" ELSE "out"
Dst(d) == IF d = "c2s" THEN "out" ELSE "in"
Other(d) == IF d = "c2s" THEN "s2c" ELSE "c2s"

VARIABLES
    mainPc,   \* main: "bind", "accept" (in the loop), "exit" (returned Err)
    pc,       \* per task: "free" (not accepted yet), "header", "handshake",
              \* "route", "connect", "relay", then its end: "ok", "err",
              \* "panic", or "killed" (the process ended under it)
    res,      \* per task: what process() returned
    ip,       \* per task: inbound_addr.ip()
    sock,     \* per task and side: "none", "open", "closed" (dropped here)
    fin,      \* per task and side, the remote end: "open", "eof", "reset"
    wrote,    \* per task and side: all the bytes the remote end writes
    wire,     \* per task and side: bytes written and not yet arrived
    rq,       \* per task and side: the socket's receive queue
    sent,     \* per task and side: bytes the proxy wrote to the socket
    hdr,      \* per task: buf of the first peek
    hs,       \* per task: buf of the second peek
    host,     \* per task: host_str
    addr,     \* per task: addr
    dials,    \* per task: the addresses TcpStream::connect was called with
    dir,      \* per task and direction: "idle", "copying", "done", "failed",
              \* "dropped"
    buf,      \* per task and direction: bytes read and not yet written
    log,      \* per task: the stages run so far, in order
    lines     \* the lines printed, in order

vars == <<mainPc, pc, res, ip, sock, fin, wrote, wire, rq, sent, hdr, hs, host,
          addr, dials, dir, buf, log, lines>>

Ev(op, size, got) == [op |-> op, size |-> size, got |-> got]

Live == {"header", "handshake", "route", "connect", "relay"}
Ended == {"ok", "err", "panic", "killed"}

Init ==
    /\ mainPc = "bind"
    /\ pc = [c \in Conns |-> "free"]
    /\ res = [c \in Conns |-> Running]
    /\ ip = [c \in Conns |-> ""]
    /\ sock = [c \in Conns |-> [s \in Sides |-> "none"]]
    /\ fin = [c \in Conns |-> [s \in Sides |-> "open"]]
    /\ wrote = [c \in Conns |-> [s \in Sides |-> <<>>]]
    /\ wire = [c \in Conns |-> [s \in Sides |-> <<>>]]
    /\ rq = [c \in Conns |-> [s \in Sides |-> <<>>]]
    /\ sent = [c \in Conns |-> [s \in Sides |-> <<>>]]
    /\ hdr = [c \in Conns |-> <<>>]
    /\ hs = [c \in Conns |-> <<>>]
    /\ host = [c \in Conns |-> <<>>]
    /\ addr = [c \in Conns |-> NoAddr]
    /\ dials = [c \in Conns |-> <<>>]
    /\ dir = [c \in Conns |-> [d \in Dirs |-> "idle"]]
    /\ buf = [c \in Conns |-> [d \in Dirs |-> <<>>]]
    /\ log = [c \in Conns |-> <<>>]
    /\ lines = <<>>

----------------------------------------------------------------------------
(* Sockets *)

\* a read or peek on the socket would return now rather than pend
Readable(c, s) == rq[c][s] # <<>> \/ fin[c][s] # "open"

\* faulty variant: a peek that takes its bytes off the queue, as a read does
AfterPeekConsuming(q, n) == Drop(q, n)

\* the receive queue after a peek of n bytes: untouched
AfterPeek(q, n) == q

\* faulty variant: the count TcpStream::peek returns not compared: the buffer,
\* zeroed where no byte came, is handed on
PeekIgnoresCount(q, f, size) ==
    IF f = "reset" THEN [res |-> Err(IoReset), buf |-> <<>>, n |-> 0]
    ELSE LET n == Min(size, Len(q))
         IN  [res |-> Ok, buf |-> Take(q, n) \o Zeros(size - n), n |-> n]

\* TcpStream::peek into a buffer of `size` bytes, then peek()'s comparison:
\* the bytes at the front of the queue, as many as are there up to size
Peek(q, f, size) ==
    IF f = "reset" THEN [res |-> Err(IoReset), buf |-> <<>>, n |-> 0]
    ELSE LET n == Min(size, Len(q))
         IN  IF n = size
             THEN [res |-> Ok, buf |-> Take(q, size), n |-> n]
             ELSE [res |-> Err(MsgPeekMismatch(n, size)), buf |-> <<>>, n |-> n]

\* sockets of a task once it has ended: all dropped
Dropped(ss) == [s \in Sides |-> IF ss[s] = "open" THEN "closed" ELSE ss[s]]
\* copies of a task once splice has returned: the unfinished one is dropped
Stopped(dd) == [d \in Dirs |-> IF dd[d] = "copying" THEN "dropped" ELSE dd[d]]

----------------------------------------------------------------------------
(* The task: main.rs 118-122 around process() *)

\* the spawned closure's handling of process()'s result: a line for an Err
Report(c, r) ==
    IF r.kind = "err"
    THEN Append(lines, [task |-> c, ip |-> ip[c], cause |-> r.msg])
    ELSE lines

\* faulty variant: process() awaited in the loop with `?`: its error ends main
MainStopsOnErr(r) == IF r.kind = "ok" THEN mainPc ELSE "exit"

\* what the end of one task does to main's loop: nothing
MainAfterTask(r) == mainPc

\* faulty variant: a failed process() is run again from its start
LeaveAndRetry(c, r, dd) ==
    /\ pc' = [pc EXCEPT ![c] = IF r.kind = "ok" THEN "ok" ELSE "header"]
    /\ res' = [res EXCEPT ![c] = r]
    /\ lines' = Report(c, r)
    /\ sock' = sock
    /\ dir' = [dir EXCEPT ![c] = Stopped(dd)]
    /\ mainPc' = MainAfterTask(r)

\* process() leaves with r while its copies stand as dd: the sockets it owns
\* are dropped, so are the copies, and the result is reported
LeaveWith(c, r, dd) ==
    /\ pc' = [pc EXCEPT ![c] = r.kind]
    /\ res' = [res EXCEPT ![c] = r]
    /\ lines' = Report(c, r)
    /\ sock' = [sock EXCEPT ![c] = Dropped(sock[c])]
    /\ dir' = [dir EXCEPT ![c] = Stopped(dd)]
    /\ mainPc' = MainAfterTask(r)

Leave(c, r) == LeaveWith(c, r, dir[c])

\* process() goes on to its next stage
Goto(c, stage) ==
    /\ pc' = [pc EXCEPT ![c] = stage]
    /\ UNCHANGED <<res, lines, sock, dir, mainPc>>

\* faulty variant: the ceiling compared with >= instead of >
CheckHeaderGe(b) ==
    IF HeaderContentType(b) # ContentType_Handshake THEN Err(MsgNotHandshake)
    ELSE IF HeaderSize(b) >= TLS_HANDSHAKE_MAX_LENGTH
    THEN Err(MsgTooLarge(HeaderSize(b)))
    ELSE Ok

\* faulty variant: the size check done before the content type check
CheckHeaderSizeFirst(b) ==
    IF HeaderSize(b) > TLS_HANDSHAKE_MAX_LENGTH
    THEN Err(MsgTooLarge(HeaderSize(b)))
    ELSE IF HeaderContentType(b) # ContentType_Handshake
    THEN Err(MsgNotHandshake)
    ELSE Ok

\* faulty variant: the declared size not checked against the maximum
CheckHeaderNoCeiling(b) ==
    IF HeaderContentType(b) # ContentType_Handshake THEN Err(MsgNotHandshake)
    ELSE Ok

\* the checks on the decoded record header (main.rs 56-66)
CheckHeader(b) ==
    IF HeaderContentType(b) # ContentType_Handshake THEN Err(MsgNotHandshake)
    ELSE IF HeaderSize(b) > TLS_HANDSHAKE_MAX_LENGTH
    THEN Err(MsgTooLarge(HeaderSize(b)))
    ELSE Ok

\* main.rs 49-66: peek the header, decode it, check it
HeaderStep(c) ==
    /\ pc[c] = "header"
    /\ Readable(c, "in")
    /\ LET p == Peek(rq[c]["in"], fin[c]["in"], TLS_RECORD_HEADER_LENGTH)
           r == IF p.res.kind = "ok" THEN CheckHeader(p.buf) ELSE p.res
       IN  /\ rq' = [rq EXCEPT ![c]["in"] = AfterPeek(@, p.n)]
           /\ log' = [log EXCEPT ![c] =
                        Append(@, Ev("peek", TLS_RECORD_HEADER_LENGTH, p.n))]
           /\ hdr' = [hdr EXCEPT ![c] = p.buf]
           /\ IF r.kind = "ok" THEN Goto(c, "handshake") ELSE Leave(c, r)
    /\ UNCHANGED <<ip, fin, wrote, wire, sent, hs, host, addr, dials, buf>>

\* main.rs 72-95: decode the handshake after the record header and take the
\* hostname of the first server name
ExtractSni(b) ==
    LET m == ReadVersion(Drop(b, TLS_RECORD_HEADER_LENGTH))
    IN  IF ~m.ok THEN [res |-> Panic, host |-> <<>>]
        ELSE IF m.typ # HandshakeType_ClientHello
        THEN [res |-> Err(MsgNotClientHello), host |-> <<>>]
        ELSE IF ~m.hasSni THEN [res |-> Err(MsgMissingSni), host |-> <<>>]
        ELSE IF m.names = <<>> THEN [res |-> Panic, host |-> <<>>]
        ELSE IF ~m.names[1].hostname
        THEN [res |-> Err(MsgUnknownSni), host |-> <<>>]
        ELSE [res |-> Ok, host |-> m.names[1].name]

\* main.rs 68-95: peek header and body together, extract the hostname
HandshakeStep(c) ==
    /\ pc[c] = "handshake"
    /\ Readable(c, "in")
    /\ \E size \in {TLS_RECORD_HEADER_LENGTH + HeaderSize(hdr[c])} :
       \E p \in {Peek(rq[c]["in"], fin[c]["in"], size)} :
       \E x \in {IF p.res.kind = "ok" THEN ExtractSni(p.buf)
                 ELSE [res |-> p.res, host |-> <<>>]} :
           /\ rq' = [rq EXCEPT ![c]["in"] = AfterPeek(@, p.n)]
           /\ log' = [log EXCEPT ![c] =
                        IF p.res.kind = "ok"
                        THEN @ \o <<Ev("peek", size, p.n), Ev("decode", 0, 0)>>
                        ELSE Append(@, Ev("peek", size, p.n))]
           /\ hs' = [hs EXCEPT ![c] = p.buf]
           /\ host' = [host EXCEPT ![c] = x.host]
           /\ IF x.res.kind = "ok" THEN Goto(c, "route") ELSE Leave(c, x.res)
    /\ UNCHANGED <<ip, fin, wrote, wire, sent, hdr, addr, dials, buf>>

\* faulty variant: the last resolved address taken instead of the first
RouteLastAddr(h, a) ==
    IF ~EndsWith(h, AllowedSuffix)
    THEN [res |-> Err(MsgRejected(h)), addr |-> NoAddr,
          ran |-> <<Ev("admit", 0, 0)>>]
    ELSE IF ~a.ok
    THEN [res |-> Err(MsgResolve(h)), addr |-> NoAddr,
          ran |-> <<Ev("admit", 0, 1), Ev("resolve", 0, 0)>>]
    ELSE IF a.addrs = <<>>
    THEN [res |-> Panic, addr |-> NoAddr,
          ran |-> <<Ev("admit", 0, 1), Ev("resolve", 0, 0)>>]
    ELSE [res |-> Ok, addr |-> a.addrs[Len(a.addrs)],
          ran |-> <<Ev("admit", 0, 1), Ev("resolve", 0, Len(a.addrs))>>]

\* faulty variant: the suffix compared without regard to case
RouteIgnoreCase(h, a) ==
    IF ~EndsWith(ToAsciiLowercase(h), AllowedSuffix)
    THEN [res |-> Err(MsgRejected(h)), addr |-> NoAddr,
          ran |-> <<Ev("admit", 0, 0)>>]
    ELSE IF ~a.ok
    THEN [res |-> Err(MsgResolve(h)), addr |-> NoAddr,
          ran |-> <<Ev("admit", 0, 1), Ev("resolve", 0, 0)>>]
    ELSE IF a.addrs = <<>>
    THEN [res |-> Panic, addr |-> NoAddr,
          ran |-> <<Ev("admit", 0, 1), Ev("resolve", 0, 0)>>]
    ELSE [res |-> Ok, addr |-> a.addrs[1],
          ran |-> <<Ev("admit", 0, 1), Ev("resolve", 0, Len(a.addrs))>>]

\* faulty variant: the name resolved before the admission check
RouteResolveFirst(h, a) ==
    IF ~a.ok
    THEN [res |-> Err(MsgResolve(h)), addr |-> NoAddr,
          ran |-> <<Ev("resolve", 0, 0)>>]
    ELSE IF a.addrs = <<>>
    THEN [res |-> Panic, addr |-> NoAddr, ran |-> <<Ev("resolve", 0, 0)>>]
    ELSE IF ~EndsWith(h, AllowedSuffix)
    THEN [res |-> Err(MsgRejected(h)), addr |-> NoAddr,
          ran |-> <<Ev("resolve", 0, Len(a.addrs)), Ev("admit", 0, 0)>>]
    ELSE [res |-> Ok, addr |-> a.addrs[1],
          ran |-> <<Ev("resolve", 0, Len(a.addrs)), Ev("admit", 0, 1)>>]

\* main.rs 97-106 on host_str h with the resolver answering a: the stages
\* run, the result, and the address to connect to
Route(h, a) ==
    IF ~EndsWith(h, AllowedSuffix)
    THEN [res |-> Err(MsgRejected(h)), addr |-> NoAddr,
          ran |-> <<Ev("admit", 0, 0)>>]
    ELSE IF ~a.ok
    THEN [res |-> Err(MsgResolve(h)), addr |-> NoAddr,
          ran |-> <<Ev("admit", 0, 1), Ev("resolve", 0, 0)>>]
    ELSE IF a.addrs = <<>>
    THEN [res |-> Panic, addr |-> NoAddr,
          ran |-> <<Ev("admit", 0, 1), Ev("resolve", 0, 0)>>]
    ELSE [res |-> Ok, addr |-> a.addrs[1],
          ran |-> <<Ev("admit", 0, 1), Ev("resolve", 0, Len(a.addrs))>>]

\* main.rs 97-106: admission, then resolution of "host:443"
RouteStep(c) ==
    /\ pc[c] = "route"
    /\ \E a \in ToSocketAddrs(host[c], OutboundPort) :
         LET x == Route(host[c], a)
         IN  /\ log' = [log EXCEPT ![c] = @ \o x.ran]
             /\ addr' = [addr EXCEPT ![c] = x.addr]
             /\ IF x.res.kind = "ok" THEN Goto(c, "connect") ELSE Leave(c, x.res)
    /\ UNCHANGED <<ip, fin, wrote, wire, rq, sent, hdr, hs, host, dials, buf>>

\* faulty variant: one outbound address kept for all tasks: the first resolved
DialAddrShared(c) ==
    IF \E b \in Conns : b < c /\ addr[b] # NoAddr
    THEN addr[CHOOSE b \in Conns : b < c /\ addr[b] # NoAddr]
    ELSE addr[c]

\* the address task c connects to: the one its own resolution gave
DialAddr(c) == addr[c]

\* main.rs 108-109: connect to addr; on success splice starts both copies
ConnectStep(c, env) ==
    /\ pc[c] = "connect"
    /\ dials' = [dials EXCEPT ![c] = Append(@, DialAddr(c))]
    /\ \/ /\ log' = [log EXCEPT ![c] = Append(@, Ev("connect", 0, 0))]
          /\ Leave(c, Err(IoRefused))
          /\ UNCHANGED <<wrote, wire>>
       \/ \E u \in env.ups[DialAddr(c).ip] :
          /\ log' = [log EXCEPT ![c] = Append(@, Ev("connect", 0, 1))]
          /\ pc' = [pc EXCEPT ![c] = "relay"]
          /\ sock' = [sock EXCEPT ![c]["out"] = "open"]
          /\ dir' = [dir EXCEPT ![c] = [d \in Dirs |-> "copying"]]
          /\ wrote' = [wrote EXCEPT ![c]["out"] = u]
          /\ wire' = [wire EXCEPT ![c]["out"] = u]
          /\ UNCHANGED <<res, lines, mainPc>>
    /\ UNCHANGED <<ip, fin, rq, sent, hdr, hs, host, addr, buf>>

----------------------------------------------------------------------------
(* splice: main.rs 31-42 *)

\* faulty variant: a join that waits for both copies before it looks at errors
JoinAll(dd) ==
    IF \E d \in Dirs : dd[d] = "copying" THEN "pending"
    ELSE IF \E d \in Dirs : dd[d] = "failed" THEN "err"
    ELSE "ok"

\* faulty variant: a race of the two copies: the first one done ends the splice
JoinRace(dd) ==
    IF \E d \in Dirs : dd[d] = "failed" THEN "err"
    ELSE IF \E d \in Dirs : dd[d] = "done" THEN "ok"
    ELSE "pending"

\* future::try_join over the two copies standing as dd: an error of either
\* ends the join at once, success needs both done
TryJoin(dd) ==
    IF \E d \in Dirs : dd[d] = "failed" THEN "err"
    ELSE IF \A d \in Dirs : dd[d] = "done" THEN "ok"
    ELSE "pending"

\* splice after one of its copies moved to status st
Joined(c, d, st) ==
    LET dd == [dir[c] EXCEPT ![d] = st]
        j == TryJoin(dd)
    IN  IF j = "pending"
        THEN /\ dir' = [dir EXCEPT ![c] = dd]
             /\ UNCHANGED <<pc, res, lines, sock, mainPc>>
        ELSE LeaveWith(c, IF j = "ok" THEN Ok ELSE Err(IoReset), dd)

\* one read of a copy: up to a buffer of bytes off the source's queue; end of
\* stream finishes the copy, an error fails it
CopyRead(c, d) ==
    /\ pc[c] = "relay"
    /\ dir[c][d] = "copying"
    /\ buf[c][d] = <<>>
    /\ Readable(c, Src(d))
    /\ IF fin[c][Src(d)] = "reset"
       THEN Joined(c, d, "failed") /\ UNCHANGED <<rq, buf>>
       ELSE IF rq[c][Src(d)] # <<>>
       THEN /\ buf' = [buf EXCEPT ![c][d] = Take(rq[c][Src(d)], CopyChunk)]
            /\ rq' = [rq EXCEPT ![c][Src(d)] = Drop(@, CopyChunk)]
            /\ UNCHANGED <<pc, res, lines, sock, dir, mainPc>>
       ELSE Joined(c, d, "done") /\ UNCHANGED <<rq, buf>>
    /\ UNCHANGED <<ip, fin, wrote, wire, sent, hdr, hs, host, addr, dials, log>>

\* faulty variant: the count a write returns ignored: the buffer is taken as written
AfterWriteAll(b, i) == <<>>

\* the buffer of a copy after a write accepted i of its bytes
AfterWrite(b, i) == Drop(b, i)

\* sizes one write may accept of the bytes b
WriteSizes(b, env) ==
    {Len(b)} \cup
    (IF env.cuts /\ PartialWrite < Len(b) THEN {PartialWrite} ELSE {})

\* one write of a copy: some of the buffered bytes go to the destination; an
\* error fails the copy
CopyWrite(c, d, env) ==
    /\ pc[c] = "relay"
    /\ dir[c][d] = "copying"
    /\ buf[c][d] # <<>>
    /\ IF fin[c][Dst(d)] = "reset"
       THEN Joined(c, d, "failed") /\ UNCHANGED <<sent, buf>>
       ELSE /\ \E i \in WriteSizes(buf[c][d], env) :
                 /\ sent' = [sent EXCEPT ![c][Dst(d)] = @ \o Take(buf[c][d], i)]
                 /\ buf' = [buf EXCEPT ![c][d] = AfterWrite(@, i)]
            /\ UNCHANGED <<pc, res, lines, sock, dir, mainPc>>
    /\ UNCHANGED <<ip, fin, wrote, wire, rq, hdr, hs, host, addr, dials, log>>

----------------------------------------------------------------------------
(* The peers *)

\* sizes of the next TCP segment: everything written, or, for the first
\* segment, a cut inside the header, at its end, or inside the body
SegSizes(c, s, env) ==
    {Len(wire[c][s])} \cup
    (IF env.cuts /\ s = "in" /\ wire[c][s] = wrote[c][s]
     THEN {k \in {SegCut, TLS_RECORD_HEADER_LENGTH,
                  TLS_RECORD_HEADER_LENGTH + SegCut} : k < Len(wire[c][s])}
     ELSE {})

Arrive(c, s, env) ==
    /\ sock[c][s] = "open"
    /\ fin[c][s] = "open"
    /\ wire[c][s] # <<>>
    /\ \E k \in SegSizes(c, s, env) :
         /\ rq' = [rq EXCEPT ![c][s] = @ \o Take(wire[c][s], k)]
         /\ wire' = [wire EXCEPT ![c][s] = Drop(@, k)]
    /\ UNCHANGED <<mainPc, pc, res, ip, sock, fin, wrote, sent, hdr, hs, host,
                   addr, dials, dir, buf, log, lines>>

\* the remote end closes its sending side after all it wrote has arrived
PeerFin(c, s) ==
    /\ sock[c][s] = "open"
    /\ fin[c][s] = "open"
    /\ wire[c][s] = <<>>
    /\ fin' = [fin EXCEPT ![c][s] = "eof"]
    /\ UNCHANGED <<mainPc, pc, res, ip, sock, wrote, wire, rq, sent, hdr, hs,
                   host, addr, dials, dir, buf, log, lines>>

\* the remote end resets the connection; what was under way is lost
PeerReset(c, s, env) ==
    /\ s \in env.resets
    /\ sock[c][s] = "open"
    /\ fin[c][s] = "open"
    /\ fin' = [fin EXCEPT ![c][s] = "reset"]
    /\ wire' = [wire EXCEPT ![c][s] = <<>>]
    /\ UNCHANGED <<mainPc, pc, res, ip, sock, wrote, rq, sent, hdr, hs, host,
                   addr, dials, dir, buf, log, lines>>

----------------------------------------------------------------------------
(* main: main.rs 113-124 *)

BindOk ==
    /\ mainPc = "bind"
    /\ mainPc' = "accept"
    /\ UNCHANGED <<pc, res, ip, sock, fin, wrote, wire, rq, sent, hdr, hs, host,
                   addr, dials, dir, buf, log, lines>>

\* bind fails: main returns the error
BindErr ==
    /\ mainPc = "bind"
    /\ mainPc' = "exit"
    /\ UNCHANGED <<pc, res, ip, sock, fin, wrote, wire, rq, sent, hdr, hs, host,
                   addr, dials, dir, buf, log, lines>>

\* accept yields a connection: a task is spawned for it and the loop goes on
AcceptOk(env) ==
    /\ mainPc = "accept"
    /\ \E c \in 1..env.conns :
         /\ pc[c] = "free"
         /\ \A b \in Conns : b < c => pc[b] # "free"
         /\ \E s \in env.streams, a \in env.peers :
              /\ pc' = [pc EXCEPT ![c] = "header"]
              /\ ip' = [ip EXCEPT ![c] = a]
              /\ sock' = [sock EXCEPT ![c]["in"] = "open"]
              /\ wrote' = [wrote EXCEPT ![c]["in"] = s]
              /\ wire' = [wire EXCEPT ![c]["in"] = s]
    /\ UNCHANGED <<mainPc, res, fin, rq, sent, hdr, hs, host, addr, dials, dir,
                   buf, log, lines>>

\* accept returns an error: `?` makes main return it, the runtime is dropped
\* and the process ends with every task still running
AcceptErr ==
    /\ mainPc = "accept"
    /\ mainPc' = "exit"
    /\ pc' = [c \in Conns |-> IF pc[c] \in Live THEN "killed" ELSE pc[c]]
    /\ sock' = [c \in Conns |-> Dropped(sock[c])]
    /\ dir' = [c \in Conns |-> Stopped(dir[c])]
    /\ UNCHANGED <<res, ip, fin, wrote, wire, rq, sent, hdr, hs, host, addr,
                   dials, buf, log, lines>>

----------------------------------------------------------------------------

\* faulty variant: process() awaited inside the accept loop: a task runs only
\* when no connection accepted before it is unfinished
ScheduledInline(c) == \A b \in Conns : b < c => pc[b] \notin Live

\* tokio::spawn: the runtime polls a task whatever the other tasks do
Scheduled(c) == TRUE

Task(c, env) ==
    /\ Scheduled(c)
    /\ \/ HeaderStep(c)
       \/ HandshakeStep(c)
       \/ RouteStep(c)
       \/ ConnectStep(c, env)
       \/ \E d \in Dirs : CopyRead(c, d)
       \/ \E d \in Dirs : CopyWrite(c, d, env)

Peer(c, env) ==
    \E s \in Sides : Arrive(c, s, env) \/ PeerFin(c, s) \/ PeerReset(c, s, env)

NextIn(env) ==
    \/ BindOk
    \/ BindErr
    \/ AcceptOk(env)
    \/ AcceptErr
    \/ \E c \in Conns : Task(c, env)
    \/ \E c \in Conns : Peer(c, env)

\* one connection, every input
Next == NextIn(EnvOne)
Spec == Init /\ [][Next]_vars

\* several connections at once, a few inputs
NextMany == NextIn(EnvMany)
SpecMany == Init /\ [][NextMany]_vars

\* two connections at once, each for an admitted name
NextPair == NextIn(EnvPair)
SpecPair == Init /\ [][NextPair]_vars

\* the second peek of task c would return now: HandshakeStep(c) can be taken
HandshakeReady(c) == Scheduled(c) /\ pc[c] = "handshake" /\ Readable(c, "in")

\* two connections; the first may stay suspended anywhere for ever (its
\* peers silent, its task not woken); the task of the other is polled
\* whenever it can move and its peers deliver what they wrote and close.
\* Weak fairness of HandshakeStep(c) is written out: the step is enabled
\* exactly when HandshakeReady(c) holds and every such step ends that.
NextStall == NextIn(EnvStall)
SpecStall ==
    /\ Init
    /\ [][NextStall]_vars
    /\ \A c \in Conns \ {1} :
          /\ WF_vars(Scheduled(c) /\ HeaderStep(c))
          /\ []<>~HandshakeReady(c)
          /\ WF_vars(Scheduled(c) /\ RouteStep(c))
          /\ WF_vars(Scheduled(c) /\ ConnectStep(c, EnvStall))
          /\ \A d \in Dirs :
                /\ WF_vars(Scheduled(c) /\ CopyRead(c, d))
                /\ WF_vars(Scheduled(c) /\ CopyWrite(c, d, EnvStall))
          /\ \A s \in Sides :
                WF_vars(Arrive(c, s, EnvStall)) /\ WF_vars(PeerFin(c, s))

\* the admission check on its own: every task stands before line 97 with a
\* hostname text in host_str, and goes on from there up to its connect
InitAdmit ==
    /\ mainPc = "accept"
    /\ pc = [c \in Conns |-> "route"]
    /\ res = [c \in Conns |-> Running]
    /\ ip = [c \in Conns |-> "198.51.100.7"]
    /\ sock = [c \in Conns |-> [s \in Sides |-> IF s = "in" THEN "open" ELSE "none"]]
    /\ fin = [c \in Conns |-> [s \in Sides |-> "open"]]
    /\ wrote = [c \in Conns |-> [s \in Sides |-> <<>>]]
    /\ wire = [c \in Conns |-> [s \in Sides |-> <<>>]]
    /\ rq = [c \in Conns |-> [s \in Sides |-> <<>>]]
    /\ sent = [c \in Conns |-> [s \in Sides |-> <<>>]]
    /\ hdr = [c \in Conns |-> <<>>]
    /\ hs = [c \in Conns |-> <<>>]
    /\ host \in [Conns -> HostTexts]
    /\ addr = [c \in Conns |-> NoAddr]
    /\ dials = [c \in Conns |-> <<>>]
    /\ dir = [c \in Conns |-> [d \in Dirs |-> "idle"]]
    /\ buf = [c \in Conns |-> [d \in Dirs |-> <<>>]]
    /\ log = [c \in Conns |-> <<>>]
    /\ lines = <<>>
NextAdmit ==
    \/ \E c \in Conns : RouteStep(c)
    \/ \E c \in Conns : ConnectStep(c, EnvMany)
SpecAdmit == InitAdmit /\ [][NextAdmit]_vars

\* one connection whose task is polled whenever it can move: try_join polls
\* both copies on every wake-up, so neither copy waits on the other. The
\* peers stay free to be silent.
SpecFair ==
    /\ Init
    /\ [][Next]_vars
    /\ \A c \in Conns : \A d \in Dirs :
          WF_vars(CopyRead(c, d)) /\ WF_vars(CopyWrite(c, d, EnvOne))

----------------------------------------------------------------------------
(* Properties *)

\* the stages of kind op that task c has run
Ran(c, op) == {i \in 1..Len(log[c]) : log[c][i].op = op}
\* the name of task c was resolved to at least one address
Resolved(c) == \E i \in Ran(c, "resolve") : log[c][i].got >= 1
\* the lines printed for task c
LinesOf(c) == SelectSeq(lines, LAMBDA l : l.task = c)
\* the client of task c sends a well-formed ClientHello naming h first
SendsHelloFor(c, h) == IsPrefix(HelloFor(h), wrote[c]["in"])
\* process() of task c is past its connect
PastConnect(c) == pc[c] \in {"relay", "ok", "err"} /\ Resolved(c)

C2_RelayIsPrefix ==
    \A c \in Conns :
        /\ IsPrefix(sent[c]["out"], wrote[c]["in"])
        /\ IsPrefix(sent[c]["in"], wrote[c]["out"])
        /\ IsPrefix(sent[c]["out"] \o buf[c]["c2s"] \o rq[c]["in"],
                    wrote[c]["in"])
        /\ IsPrefix(sent[c]["in"] \o buf[c]["s2c"] \o rq[c]["out"],
                    wrote[c]["out"])
        /\ sent[c]["out"] # <<>> =>
              /\ hs[c] # <<>>
              /\ IsPrefix(hs[c], sent[c]["out"]) \/ IsPrefix(sent[c]["out"], hs[c])

C2_Witness ==
    \E c \in Conns :
        /\ pc[c] = "relay"
        /\ sent[c]["out"] = wrote[c]["in"]
        /\ Len(sent[c]["out"]) > Len(hs[c])
        /\ IsPrefix(hs[c], sent[c]["out"])
        /\ sent[c]["in"] = wrote[c]["out"]
        /\ sent[c]["in"] # <<>>

\* C3: a connection whose SNI hostname does not end with the allowed suffix
\* never has its name resolved nor an outbound connect made; once the
\* admission check has run, process() has returned the rejection error, whose
\* text carries the hostname, one line reports it, and the inbound socket is
\* closed.
C3_RejectedNeverRouted ==
    \A c \in Conns :
        host[c] # <<>> /\ ~EndsWith(host[c], AllowedSuffix) =>
            /\ Ran(c, "resolve") = {}
            /\ Ran(c, "connect") = {}
            /\ dials[c] = <<>>
            /\ sock[c]["out"] = "none"
            /\ pc[c] \in {"route", "err", "killed"}
            /\ pc[c] = "err" =>
                  /\ res[c].msg.fmt = "Rejected {}"
                  /\ res[c].msg.args = <<host[c]>>
                  /\ LinesOf(c) = <<[task |-> c, ip |-> ip[c],
                                     cause |-> res[c].msg]>>
                  /\ sock[c]["in"] = "closed"
            /\ pc[c] = "killed" => sock[c]["in"] = "closed"

C3_Witness ==
    \E c \in Conns :
        /\ SendsHelloFor(c, HostEvil)
        /\ host[c] = HostEvil
        /\ pc[c] = "err"
        /\ res[c].msg.args = <<HostEvil>>

\* a peek of task c: a step of one of its two peeking stages
PeekStep(c) == pc[c] \in {"header", "handshake"} /\ log'[c] # log[c]

\* C4: no peek, successful or failed, changes the receive queue; the first 5
\* bytes of the second peek are the bytes of the header peek; and the bytes
\* consuming reads deliver after the peeks begin with the peeked bytes.
C4_PeekDoesNotConsume ==
    /\ [][\A c \in Conns : PeekStep(c) => rq'[c]["in"] = rq[c]["in"]]_vars
    /\ [](\A c \in Conns :
            /\ hs[c] # <<>> => Take(hs[c], 5) = hdr[c]
            /\ IsPrefix(hdr[c], sent[c]["out"] \o buf[c]["c2s"] \o rq[c]["in"])
            /\ IsPrefix(hs[c], sent[c]["out"] \o buf[c]["c2s"] \o rq[c]["in"]))

C4_Witness ==
    \E c \in Conns :
        /\ Cardinality(Ran(c, "peek")) = 2
        /\ hs[c] # <<>>
        /\ rq[c]["in"] = <<>>
        /\ IsPrefix(hs[c], buf[c]["c2s"])

\* the first peek of task c returned a header
HeaderPeeked(c) == hdr[c] # <<>>

\* C5: with a Handshake header, process() fails with the too-large error
\* exactly when the declared length is above 2048; then the header peek is
\* the only stage that ran: no second peek, no resolution, no connect.
C5_TooLargeIffAbove2048 ==
    \A c \in Conns :
        HeaderPeeked(c) /\ HeaderContentType(hdr[c]) = 22 =>
            /\ (res[c] = Err(MsgTooLarge(HeaderSize(hdr[c]))))
                  <=> (HeaderSize(hdr[c]) > 2048)
            /\ res[c].msg.fmt = "TLS handshake size is {}, expected {} max"
                  <=> (HeaderSize(hdr[c]) > 2048)
            /\ HeaderSize(hdr[c]) > 2048 =>
                  /\ pc[c] = "err"
                  /\ log[c] = <<Ev("peek", 5, 5)>>
                  /\ hs[c] = <<>>
                  /\ dials[c] = <<>>

C5_Witness ==
    \E c \in Conns :
        /\ HeaderPeeked(c)
        /\ HeaderSize(hdr[c]) = 2049
        /\ Len(rq[c]["in"]) = 5 + 2049
        /\ res[c] = Err(MsgTooLarge(2049))

\* C6: with a header whose content type is not Handshake, process() fails
\* with the not-a-handshake error right after the header peek, whatever the
\* declared length: no second peek, nothing decoded, no connect.
C6_NotHandshakeStopsAtHeader ==
    \A c \in Conns :
        HeaderPeeked(c) /\ HeaderContentType(hdr[c]) # 22 =>
            /\ pc[c] = "err"
            /\ res[c] = Err(MsgNotHandshake)
            /\ log[c] = <<Ev("peek", 5, 5)>>
            /\ hs[c] = <<>>
            /\ host[c] = <<>>
            /\ dials[c] = <<>>

C6_Witness ==
    \E c \in Conns :
        /\ HeaderPeeked(c)
        /\ HeaderContentType(hdr[c]) = 21
        /\ HeaderSize(hdr[c]) > 2048
        /\ res[c] = Err(MsgNotHandshake)

\* everything the model holds about task d
ConnState(d) ==
    <<pc[d], res[d], ip[d], sock[d], fin[d], wrote[d], wire[d], rq[d], sent[d],
      hdr[d], hs[d], host[d], addr[d], dials[d], dir[d], buf[d], log[d]>>

\* task c's process() fails in this step (an error returned, or a panic)
Fails(c) == pc[c] \in Live /\ pc'[c] \in {"err", "panic"}

\* C7: the step in which one connection's pipeline fails, at whatever stage,
\* leaves main in its accept loop and changes nothing of any other
\* connection: its task's stage, sockets, buffers and report lines.
C7_FailureIsContained ==
    [][\A c \in Conns :
          Fails(c) =>
             /\ mainPc = "accept"
             /\ mainPc' = "accept"
             /\ \A d \in Conns \ {c} :
                   /\ ConnState(d)' = ConnState(d)
                   /\ LinesOf(d)' = LinesOf(d)]_vars

C7_Witness ==
    \E c, d \in Conns :
        /\ c # d
        /\ pc[c] \in {"err", "panic"}
        /\ pc[d] = "ok"
        /\ Len(LinesOf(c)) + Len(LinesOf(d)) <= 1
        /\ mainPc = "accept"

\* C8: once the bind has succeeded main never leaves its accept loop.
C8_OnlyBindIsFatal == [][mainPc = "accept" => mainPc' = "accept"]_vars

\* C9: every task whose process() did not succeed is reported by exactly one
\* line carrying its peer's IP address and the cause, a task that succeeded
\* by none, and no task ends by a panic.
C9_EveryFailureReported ==
    \A c \in Conns :
        /\ pc[c] # "panic"
        /\ pc[c] = "ok" => LinesOf(c) = <<>>
        /\ pc[c] \in {"err", "panic"} =>
              /\ Len(LinesOf(c)) = 1
              /\ LinesOf(c)[1].ip = ip[c]
              /\ LinesOf(c)[1].cause = res[c].msg
              /\ res[c].msg # NoMsg

\* C10: splice returns success only when both copies ended at end-of-stream
\* with everything written; when a copy fails splice returns its error in
\* that step and the other copy is dropped; and after process() has
\* returned nothing more is read, buffered or written on its sockets.
C10_SpliceJoinsOrFails ==
    /\ [](\A c \in Conns :
            /\ pc[c] = "ok" =>
                  /\ \A d \in Dirs : dir[c][d] = "done" /\ buf[c][d] = <<>>
                  /\ \A s \in Sides : fin[c][s] = "eof" /\ rq[c][s] = <<>>
            /\ (\E d \in Dirs : dir[c][d] = "failed") =>
                  /\ pc[c] = "err"
                  /\ res[c] = Err(IoReset)
                  /\ \A d \in Dirs : dir[c][d] # "copying"
            /\ pc[c] \in Ended => \A d \in Dirs : dir[c][d] # "copying")
    /\ [][\A c \in Conns :
            pc[c] \in Ended =>
               /\ sent'[c] = sent[c]
               /\ rq'[c] = rq[c]
               /\ buf'[c] = buf[c]
               /\ dir'[c] = dir[c]]_vars

C10_Witness ==
    \E c \in Conns, d \in Dirs :
        /\ dir[c][d] = "failed"
        /\ dir[c][Other(d)] = "dropped"
        /\ buf[c][Other(d)] # <<>>
        /\ pc[c] = "err"

----------------------------------------------------------------------------
(* C11 *)

\* both sources of the relay of c are over: each at end of stream, or one reset
SourcesOver(c) ==
    \/ \A s \in Sides : fin[c][s] = "eof"
    \/ \E s \in Sides : fin[c][s] = "reset"

\* C11, the join: while one copy is done and the other still copies, splice
\* has not returned and the copy that is left can still write what it holds;
\* the task ends in success only with both copies done
C11_Joined ==
    \A c \in Conns :
        /\ \A d \in Dirs :
              dir[c][d] = "done" /\ dir[c][Other(d)] = "copying"
                  => /\ pc[c] \in {"relay", "killed"}
                     /\ pc[c] = "relay" /\ buf[c][Other(d)] # <<>>
                            => ENABLED CopyWrite(c, Other(d), EnvOne)
        /\ pc[c] = "ok" <=> \A d \in Dirs : dir[c][d] = "done"

\* C11: the two relay directions are joined, not raced: one direction at end
\* of stream leaves splice running and the other direction copying, splice
\* succeeds exactly when both directions are done, and with the task polled
\* fairly splice returns once both sources are at end of stream or one has
\* failed
C11_SpliceJoinsBothDirections ==
    /\ []C11_Joined
    /\ \A c \in Conns :
          (pc[c] = "relay" /\ SourcesOver(c)) ~> (pc[c] \in Ended)

\* one direction is done and the other one holds bytes it goes on to write
C11_Witness ==
    \E c \in Conns : \E d \in Dirs :
        /\ pc[c] = "relay"
        /\ dir[c][d] = "done"
        /\ dir[c][Other(d)] = "copying"
        /\ buf[c][Other(d)] # <<>>

----------------------------------------------------------------------------
(* C12 *)

\* the admitted name the client of c sends, if it sends one
NameSent(c) ==
    IF SendsHelloFor(c, HostApp) THEN HostApp
    ELSE IF SendsHelloFor(c, HostB) THEN HostB
    ELSE <<>>

\* the connect of task c succeeded
Connected(c) == \E i \in Ran(c, "connect") : log[c][i].got = 1

\* the upstream address of a name: the first the resolver gives
UpstreamOf(h) == [ip |-> DnsTable(h)[1], port |-> OutboundPort]

\* C12, the pairing: a task dials once at most, the address of its own
\* client's name; what it writes to its client is a prefix of what that
\* upstream answered and what it writes to the upstream is a prefix of what
\* its own client sent; none of it is a byte of a pair for another name
C12_OwnPair ==
    \A c \in Conns :
        /\ Len(dials[c]) <= 1
        /\ dials[c] # <<>> =>
              /\ NameSent(c) # <<>>
              /\ dials[c][1] = UpstreamOf(NameSent(c))
        /\ Connected(c) =>
              /\ wrote[c]["out"] = Greeting(UpstreamOf(NameSent(c)).ip)
              /\ IsPrefix(sent[c]["in"], wrote[c]["out"])
              /\ IsPrefix(sent[c]["out"], wrote[c]["in"])
        /\ \A b \in Conns \ {c} :
              NameSent(b) # NameSent(c) =>
                  /\ sent[c]["in"] # <<>> => ~IsPrefix(sent[c]["in"], wrote[b]["out"])
                  /\ sent[c]["out"] # <<>> => ~IsPrefix(sent[c]["out"], wrote[b]["in"])

\* C12, no reuse: a socket once closed stays closed, what it carried stays
\* as it was, and the slot of an ended task is not taken again
C12_NoReuse ==
    \A c \in Conns :
        /\ pc[c] \in Ended => pc'[c] = pc[c] /\ dials'[c] = dials[c]
        /\ \A s \in Sides :
              sock[c][s] = "closed" /\ wrote[c][s] # <<>>
                  => /\ sock'[c][s] = "closed"
                     /\ wrote'[c][s] = wrote[c][s]
                     /\ sent'[c][s] = sent[c][s]

\* C12: of two concurrent connections for different admitted names, each
\* inbound connection is paired with the outbound connection opened for its
\* own name under every interleaving, no byte of one pair is written to the
\* other pair, and a connection is paired with one peer only and never reused
C12_PairsAreIsolated == []C12_OwnPair /\ [][C12_NoReuse]_vars

\* two tasks for different names relay at once and each has written both ways
C12_Witness ==
    /\ NameSent(1) # <<>> /\ NameSent(2) # <<>> /\ NameSent(1) # NameSent(2)
    /\ \A c \in {1, 2} :
          /\ pc[c] = "relay"
          /\ sent[c]["in"] # <<>>
          /\ sent[c]["out"] # <<>>

----------------------------------------------------------------------------
(* C13 *)

\* what process() does, in the order of its text
StageOrder == <<"peek", "peek", "decode", "admit", "resolve", "connect">>

\* the pc of a task while it is about to run the stage, and once it relays
StagePcs == <<"header", "handshake", "route", "connect", "relay">>

\* the stages task c has run, in the order it ran them
OpsOf(c) == [i \in 1..Len(log[c]) |-> log[c][i].op]

\* the i-th stage task c ran succeeded
Succeeded(c, i) ==
    LET e == log[c][i]
    IN  CASE e.op = "peek" ->
               /\ e.got = e.size
               /\ i = 1 => /\ HeaderContentType(hdr[c]) = ContentType_Handshake
                           /\ HeaderSize(hdr[c]) <= TLS_HANDSHAKE_MAX_LENGTH
          [] e.op = "decode" -> host[c] # <<>>
          [] e.op = "admit" -> e.got = 1
          [] e.op = "resolve" -> e.got >= 1
          [] OTHER -> e.got = 1

\* C13, the order: the stages a task has run are a prefix of the fixed order,
\* every stage before the last one run succeeded, a connect was made only
\* after admission and resolution succeeded, and a copy was started or a
\* byte relayed only after the connect succeeded
C13_Ordered ==
    \A c \in Conns :
        /\ IsPrefix(OpsOf(c), StageOrder)
        /\ \A i \in 1..Len(log[c]) : i < Len(log[c]) => Succeeded(c, i)
        /\ dials[c] # <<>> =>
              /\ \E i \in Ran(c, "admit") : log[c][i].got = 1
              /\ Resolved(c)
              /\ Ran(c, "connect") # {}
        /\ (\/ \E d \in Dirs : dir[c][d] # "idle" \/ buf[c][d] # <<>>
            \/ \E s \in Sides : sent[c][s] # <<>>
            \/ pc[c] \in {"relay", "ok"})
              => Connected(c) /\ Len(log[c]) = Len(StageOrder)

\* C13, one stage at a time: a task moves from a stage to the next one only
C13_NextStage ==
    \A c \in Conns :
        pc[c] \in Live /\ pc'[c] \in Live /\ pc'[c] # pc[c] =>
            \E k \in 1..(Len(StagePcs) - 1) :
                pc[c] = StagePcs[k] /\ pc'[c] = StagePcs[k + 1]

\* C13: the stages of a connection run in a fixed order: header peek, peek
\* of the whole handshake and SNI extraction, admission check, name
\* resolution, outbound connect, relay; each starts only after the one
\* before it succeeded; no connect is made before admission and resolution
\* succeeded and no byte is relayed before the connect succeeded
C13_StagesInOrder == []C13_Ordered /\ [][C13_NextStage]_vars

\* a task ran every stage and has relayed bytes both ways
C13_Witness ==
    \E c \in Conns :
        /\ OpsOf(c) = StageOrder
        /\ sent[c]["in"] # <<>>
        /\ sent[c]["out"] # <<>>

----------------------------------------------------------------------------
(* C14 *)

\* process() of task c has failed, and before its relay started
FailedEarly(c) == res[c].kind \in {"err", "panic"} /\ ~Connected(c)

\* C14, nothing written: a task that failed before its relay has written no
\* byte to its client, nor to anyone, and its client's connection is closed
C14_NothingWritten ==
    \A c \in Conns :
        FailedEarly(c) =>
            /\ \A s \in Sides : sent[c][s] = <<>>
            /\ \A d \in Dirs : buf[c][d] = <<>> /\ dir[c][d] = "idle"
            /\ sock[c]["in"] = "closed"
            /\ sock[c]["out"] = "none"
            /\ pc[c] = res[c].kind

\* C14, no retry: after the failure the task runs no stage, connects to
\* nothing, relays nothing and does not read its client's bytes
C14_NoRetry ==
    \A c \in Conns :
        FailedEarly(c) =>
            /\ pc'[c] = pc[c] /\ res'[c] = res[c]
            /\ log'[c] = log[c] /\ dials'[c] = dials[c] /\ addr'[c] = addr[c]
            /\ sent'[c] = sent[c] /\ buf'[c] = buf[c] /\ dir'[c] = dir[c]
            /\ rq'[c] = rq[c] /\ sock'[c] = sock[c]

\* C14: a connection that fails at a stage before the relay has had no byte
\* written to it by the proxy, its client only sees it closed, and after the
\* failure no further peek, resolution, connect or relay step is taken
C14_EarlyFailureIsSilentAndFinal == []C14_NothingWritten /\ [][C14_NoRetry]_vars

\* a task failed at each of the stages before the relay, with bytes of its
\* client still unread in one of them
C14_Witness ==
    \E c \in Conns :
        /\ FailedEarly(c)
        /\ Ran(c, "connect") # {}
        /\ rq[c]["in"] # <<>>

----------------------------------------------------------------------------
(* C15 *)

\* the second peek of task c gave the whole record: its body went to the decoder
Decoded(c) == Ran(c, "decode") # {}

\* the handshake body task c peeked
BodyOf(c) == Drop(hs[c], TLS_RECORD_HEADER_LENGTH)

\* C15: for a handshake body peeked whole the extraction is decided in
\* order: a handshake type other than ClientHello gives the not-ClientHello
\* error; a ClientHello without Server Name extension gives the missing-SNI
\* error; a first entry that is not a hostname gives the unsupported
\* name-type error; otherwise the result is the hostname of the first
\* entry, whatever entries follow it
C15_ExtractionOrder ==
    \A c \in Conns :
        Decoded(c) /\ BodyOf(c) # <<>> =>
            LET m == ReadVersion(BodyOf(c))
            IN  /\ BodyOf(c)[1] # HandshakeType_ClientHello
                      => res[c] = Err(MsgNotClientHello)
                /\ m.ok /\ m.typ = HandshakeType_ClientHello /\ ~m.hasSni
                      => res[c] = Err(MsgMissingSni)
                /\ m.ok /\ m.typ = HandshakeType_ClientHello /\ m.hasSni
                      => /\ m.names # <<>>
                         /\ IF m.names[1].hostname
                            THEN host[c] = m.names[1].name
                            ELSE res[c] = Err(MsgUnknownSni)
                /\ \A e \in LaterEntries :
                      wrote[c]["in"] = HelloWith(HostEntry(HostApp) \o e)
                          => host[c] = HostApp

----------------------------------------------------------------------------
(* C16 *)

\* what the i-th stage of task c, a peek, gave the task: the header, or the
\* whole record
Peeked(c, i) == IF i = 1 THEN hdr[c] ELSE hs[c]

\* C16, the outcome of a peek: it never gives more than was asked; with as
\* many bytes as asked it gives exactly these bytes of the stream; with
\* fewer it is the last thing the task does: the task has failed, with the
\* short-peek error naming the two counts (or the socket's own error), and
\* the connection is not routed
C16_PeekOutcome ==
    \A c \in Conns : \A i \in Ran(c, "peek") :
        LET e == log[c][i]
        IN  /\ e.got <= e.size
            /\ e.got = e.size =>
                  /\ Len(Peeked(c, i)) = e.size
                  /\ Peeked(c, i) = Take(wrote[c]["in"], e.size)
                  /\ res[c] # Err(MsgPeekMismatch(e.got, e.size))
            /\ e.got < e.size =>
                  /\ i = Len(log[c])
                  /\ pc[c] = "err"
                  /\ \/ res[c] = Err(MsgPeekMismatch(e.got, e.size))
                     \/ res[c] = Err(IoReset) /\ fin[c]["in"] = "reset"
                  /\ host[c] = <<>> /\ addr[c] = NoAddr /\ dials[c] = <<>>

\* C16, one attempt: a peek step returns what is queued at that moment, up to
\* the size asked, and fails in the same step if that is less, even while
\* more bytes of the client are on their way
C16_SingleAttempt ==
    \A c \in Conns :
        PeekStep(c) =>
            LET e == log'[c][Len(log[c]) + 1]
            IN  /\ e.op = "peek"
                /\ fin[c]["in"] # "reset" => e.got = Min(e.size, Len(rq[c]["in"]))
                /\ e.got < e.size => pc'[c] = "err"

\* C16: peek(N) succeeds, with exactly N bytes, if and only if the single
\* underlying peek yields N bytes; with fewer it fails with the short-peek
\* error without waiting for more; a ClientHello of which the header but not
\* yet all declared bytes are there at the second peek makes the connection
\* fail instead of being routed
C16_ShortPeekFails == []C16_PeekOutcome /\ [][C16_SingleAttempt]_vars

\* the hello of an admitted host arrived in part, the header and some bytes
\* more, when the second peek ran: the task failed with the rest still on its way
C16_Witness ==
    \E c \in Conns :
        /\ SendsHelloFor(c, HostApp)
        /\ Len(log[c]) = 2
        /\ log[c][2].got >= TLS_RECORD_HEADER_LENGTH
        /\ log[c][2].got < log[c][2].size
        /\ res[c] = Err(MsgPeekMismatch(log[c][2].got, log[c][2].size))
        /\ wire[c]["in"] # <<>>

----------------------------------------------------------------------------
(* C17 *)

\* the hostname of task c passed the admission check
Admitted(c) == \E i \in Ran(c, "admit") : log[c][i].got = 1

\* the ways the attempt for an admitted hostname may end
EndsInResolveError(c) ==
    /\ res[c] = Err(MsgResolve(host[c]))
    /\ res[c].msg.fmt # MsgRejected(host[c]).fmt
    /\ res[c].msg.args = <<host[c]>>
    /\ dials[c] = <<>>
EndsInConnectError(c) ==
    /\ res[c] = Err(IoRefused)
    /\ Len(dials[c]) = 1
    /\ ~Connected(c)
RelayStarted(c) == Connected(c) /\ Len(dials[c]) = 1

\* C17: for an admitted hostname a failed resolution ends the attempt with
\* the resolution error, which names the hostname and whose text is not the
\* rejection's, and without a connect; and the attempt for an admitted
\* hostname ends in exactly one of: resolution error, connect error, a
\* started relay
C17_AdmittedEndsOneOfThree ==
    \A c \in Conns :
        Admitted(c) /\ pc[c] \in {"ok", "err", "panic"} =>
            /\ ~Resolved(c) => EndsInResolveError(c)
            /\ \/ EndsInResolveError(c) /\ ~EndsInConnectError(c) /\ ~RelayStarted(c)
               \/ ~EndsInResolveError(c) /\ EndsInConnectError(c) /\ ~RelayStarted(c)
               \/ ~EndsInResolveError(c) /\ ~EndsInConnectError(c) /\ RelayStarted(c)

----------------------------------------------------------------------------
(* C18 *)

\* C18, the loop: whatever stage the first task stands at, main in its loop
\* can accept the next connection
C18_AcceptReady ==
    mainPc = "accept" /\ pc[1] \in Live /\ pc[2] = "free"
        => ENABLED AcceptOk(EnvStall)

\* C18: a task suspended for ever at a suspension point (a peek on a silent
\* peer, the connect, a direction of the relay) keeps neither the accept
\* loop from accepting nor another task from going on: with fair scheduling
\* a connection whose own peers respond reaches its outcome (or the process
\* has ended)
C18_OthersProgress ==
    /\ []C18_AcceptReady
    /\ \A c \in Conns \ {1} : (pc[c] \in Live) ~> (pc[c] \in Ended)

\* the first connection's client is silent, its task waits in the header
\* peek, and the second connection has been relayed to its end
C18_Witness ==
    /\ pc[1] = "header"
    /\ rq[1]["in"] = <<>>
    /\ fin[1]["in"] = "open"
    /\ pc[2] = "ok"

----------------------------------------------------------------------------
(* C19 *)

\* the largest buffer a peek may ask for
MaxPeek == TLS_RECORD_HEADER_LENGTH + TLS_HANDSHAKE_MAX_LENGTH

\* C19: a peek asks for 5 bytes, or for 5 + L bytes where L is the length
\* the header declares and L <= 2048: no peek buffer is larger than 2053
\* bytes, whatever 16-bit length the peer declares
C19_PeekSizeBounded ==
    \A c \in Conns :
        /\ \A i \in Ran(c, "peek") :
              LET e == log[c][i]
              IN  /\ \/ i = 1 /\ e.size = TLS_RECORD_HEADER_LENGTH
                     \/ /\ i = 2
                        /\ e.size = TLS_RECORD_HEADER_LENGTH + HeaderSize(hdr[c])
                        /\ HeaderSize(hdr[c]) <= TLS_HANDSHAKE_MAX_LENGTH
                  /\ e.size <= MaxPeek
                  /\ e.got <= MaxPeek
        /\ Len(hdr[c]) <= TLS_RECORD_HEADER_LENGTH
        /\ Len(hs[c]) <= MaxPeek
        /\ HeaderPeeked(c) /\ HeaderSize(hdr[c]) > TLS_HANDSHAKE_MAX_LENGTH
              => Cardinality(Ran(c, "peek")) = 1

\* a peek of the largest size was made and gave that many bytes
C19_Witness ==
    \E c \in Conns : \E i \in Ran(c, "peek") :
        log[c][i].size = MaxPeek /\ log[c][i].got = MaxPeek

----------------------------------------------------------------------------
(* C20 *)

\* the admission check was made for task c
Decided(c) == Ran(c, "admit") # {}

\* the last characters of h are those of "holohost.net", one by one
HasSuffixText(h) ==
    /\ Len(h) >= Len(AllowedSuffix)
    /\ \A i \in 1..Len(AllowedSuffix) :
          h[Len(h) - Len(AllowedSuffix) + i] = AllowedSuffix[i]

============================================================================
